---- MODULE Spec2Model ----
(***************************************************************************)
(* State-machine model of the streaming pipeline of                        *)
(* src/src/whisper_wrapper.cpp: AsyncWhisperModel (start, stop,            *)
(* queueAudio, resultThread) and ThreadedWhisperModel (stop,               *)
(* processAccumulatedAudio, processThread), as bound to Python by the      *)
(* PYBIND11_MODULE block.                                                  *)
(*                                                                         *)
(* Threads: Python caller threads (one control thread calling start/stop,  *)
(* producer threads calling queue_audio), the worker (process_thread) and  *)
(* the delivery loop (result_thread).  No binding releases the             *)
(* interpreter lock (no py::call_guard<py::gil_scoped_release>), so every  *)
(* bound call runs with the interpreter lock held from entry to return;    *)
(* the delivery loop takes it with py::gil_scoped_acquire around the       *)
(* callback loop; the worker never takes it.                               *)
(*                                                                         *)
(* A vector of samples is modelled as a sequence of runs                   *)
(* [of |-> chunk id, n |-> number of samples]; the code only appends whole *)
(* chunks, copies and clears, so runs are never split.  A string is a      *)
(* sequence of one-character strings.                                      *)
(***************************************************************************)
EXTENDS Integers, Sequences, FiniteSets, TLC

\* ---------------------------------------------------------------- bounds
\* queue_audio calls over the whole behaviour
MaxChunks == 2
\* start() calls over the whole behaviour
MaxStarts == 2
\* the max_duration_sec given to the constructor
MaxDurationSec == 2

\* ------------------------------------------------------ program constants
\* accumulated_buffer.size() < 16000
MinEmitSamples == 16000
\* int sample_rate = 16000
SampleRate == 16000

Producers == {"p1", "p2"}
Callbacks == {"cbA"}
\* sizes of the arrays handed to queue_audio
ChunkSizes == {0, 5000, 30000}
NoThread == "none"

\* ------------------------------------------------------------ strings
Whitespace == {" ", "\t", "\n", "\r"}
Npos == -1

\* str.find_first_not_of(" \t\n\r"), 0-based, Npos when there is none
FindFirstNotOf(str) ==
    LET idx == {i \in 0 .. Len(str) - 1 : str[i + 1] \notin Whitespace}
    IN  IF idx = {} THEN Npos ELSE CHOOSE i \in idx : \A j \in idx : i <= j

\* str.find_last_not_of(" \t\n\r"), 0-based, Npos when there is none
FindLastNotOf(str) ==
    LET idx == {i \in 0 .. Len(str) - 1 : str[i + 1] \notin Whitespace}
    IN  IF idx = {} THEN Npos ELSE CHOOSE i \in idx : \A j \in idx : i >= j

\* str.substr(pos, count)
Substr(str, pos, count) == SubSeq(str, pos + 1, pos + count)

\* trim as it would be with only the blank in the character set
trimBlanksOnly(str) ==
    LET idx == {i \in 0 .. Len(str) - 1 : str[i + 1] # " "}
        start == IF idx = {} THEN Npos ELSE CHOOSE i \in idx : \A j \in idx : i <= j
        end == IF idx = {} THEN Npos ELSE CHOOSE i \in idx : \A j \in idx : i >= j
    IN  IF start = Npos THEN <<>> ELSE Substr(str, start, end - start + 1)

\* std::string trim(const std::string &str)
trim(str) ==
    LET start == FindFirstNotOf(str)
        end == FindLastNotOf(str)
    IN  IF start = Npos THEN <<>> ELSE Substr(str, start, end - start + 1)

\* full_text += segment.text, for each segment in order
RECURSIVE ConcatText(_)
ConcatText(segs) ==
    IF segs = <<>> THEN <<>> ELSE Head(segs).text \o ConcatText(Tail(segs))

\* ------------------------------------------------------------ the engine
Seg(t) == [text |-> t]
\* what model.transcribe_raw_audio can return: no segment, whitespace-only
\* segments, text padded with whitespace
EngineSegments ==
    { <<>>,
      << Seg(<<" ">>), Seg(<<"\n", "\t">>) >>,
      << Seg(<<" ", "h">>), Seg(<<"i", "\r">>) >> }
\* threw: whisper_full returned non-zero and transcribe_raw_audio threw
EngineOutcomes ==
    {[threw |-> TRUE, segs |-> <<>>]}
        \cup {[threw |-> FALSE, segs |-> s] : s \in EngineSegments}

\* ------------------------------------------------------------ vectors
RECURSIVE Size(_)
Size(v) == IF v = <<>> THEN 0 ELSE Head(v).n + Size(Tail(v))

\* chunk.data.assign(data, data + n_samples)
Samples(id, n) == IF n = 0 THEN <<>> ELSE << [of |-> id, n |-> n] >>

VARIABLES
    running,            \* std::atomic<bool> running
    next_chunk_id,      \* std::atomic<size_t> next_chunk_id
    current_chunk_id,   \* size_t current_chunk_id
    input_queue,        \* std::queue<AudioChunk>
    input_mutex,        \* owner of input_mutex across actions, or NoThread
    result_queue,       \* std::queue<TranscriptionResult>
    result_callback,    \* py::function result_callback
    accumulated_buffer, \* std::vector<float> accumulated_buffer
    max_samples,        \* size_t max_samples
    gil,                \* owner of the interpreter lock, or NoThread
    ctl_pc,             \* control thread: position in start()/stop()
    p_pc,               \* producer: position in queueAudio
    p_chunk,            \* producer: local AudioChunk chunk
    queue_ret,          \* value last returned by queueAudio
    w_pc,               \* worker: position in processThread
    w_blocked,          \* worker is blocked inside input_cv.wait
    force_final,        \* worker: parameter of processAccumulatedAudio
    all_chunks,         \* worker: local AudioChunk all_chunks
    process_buffer,     \* worker: local process_buffer
    current_id,         \* worker: local current_id
    segments,           \* worker: local segments
    r_pc,               \* delivery loop: position in resultThread
    results,            \* delivery loop: local results
    delivered,          \* history: the callback invocations, in order
    hist                \* history: counters and flags the properties read

vars == << running, next_chunk_id, current_chunk_id, input_queue, input_mutex,
           result_queue, result_callback, accumulated_buffer, max_samples, gil,
           ctl_pc, p_pc, p_chunk, queue_ret, w_pc, w_blocked, force_final,
           all_chunks, process_buffer, current_id, segments, r_pc, results,
           delivered, hist >>

NoChunk == [data |-> <<>>, id |-> 0, ser |-> 0]

\* static_cast<size_t>(max_duration_sec * sample_rate)
MaxSamplesOf(max_duration_sec, sample_rate) == max_duration_sec * sample_rate

\* the state of a ThreadedWhisperModel constructed with the given
\* max_duration_sec and sample_rate
Construct(max_duration_sec, sample_rate) ==
    /\ running = FALSE
    /\ next_chunk_id = 0
    /\ current_chunk_id = 0
    /\ input_queue = <<>>
    /\ input_mutex = NoThread
    /\ result_queue = <<>>
    /\ result_callback = NoThread
    /\ accumulated_buffer = <<>>
    /\ max_samples = MaxSamplesOf(max_duration_sec, sample_rate)
    /\ gil = NoThread
    /\ ctl_pc = "idle"
    /\ p_pc = [p \in Producers |-> "idle"]
    /\ p_chunk = [p \in Producers |-> NoChunk]
    /\ queue_ret = 0
    /\ w_pc = "none"
    /\ w_blocked = FALSE
    /\ force_final = FALSE
    /\ all_chunks = NoChunk
    /\ process_buffer = <<>>
    /\ current_id = 0
    /\ segments = <<>>
    /\ r_pc = "none"
    /\ results = <<>>
    /\ delivered = <<>>
    /\ hist = [ calls |-> 0, starts |-> 0, stops |-> 0, appended |-> 0,
                drained |-> <<>>, pushed |-> 0, forced |-> 0,
                engine_ok |-> TRUE, idle_enq |-> FALSE, total |-> 0,
                w_at_stop |-> "none", noop |-> FALSE, workers |-> 0,
                deliverers |-> 0, last_cb |-> NoThread,
                sample_rate |-> sample_rate, threw |-> FALSE,
                deliverable |-> <<>>, cb_raised |-> 0 ]

\* the instance is constructed with the default sample rate
Init == Construct(MaxDurationSec, SampleRate)

\* ------------------------------------------------- queue_audio (producers)
\* AudioChunk chunk; chunk.data.assign(...); chunk.id = next_chunk_id++
NewChunk(n, id) == [data |-> Samples(id, n), id |-> id, ser |-> 0]

\* a push at the front of the queue instead of the back
PushChunkFront(q, chunk) == <<chunk>> \o q

\* input_queue.push(std::move(chunk))
PushChunk(q, chunk) == Append(q, chunk)

\* queueAudio up to the counter as it would run if the binding released the
\* interpreter lock for the call
QueueAudioAssignUnlocked(p, n) ==
    /\ p_pc[p] = "idle"
    /\ hist.calls < MaxChunks
    /\ p_chunk' = [p_chunk EXCEPT ![p] = NewChunk(n, next_chunk_id)]
    /\ next_chunk_id' = next_chunk_id + 1
    /\ p_pc' = [p_pc EXCEPT ![p] = "push"]
    /\ hist' = [hist EXCEPT !.calls = @ + 1]
    /\ UNCHANGED << running, current_chunk_id, input_queue, input_mutex,
                    result_queue, result_callback, accumulated_buffer,
                    max_samples, gil, ctl_pc, queue_ret, w_pc, w_blocked,
                    force_final, all_chunks, process_buffer, current_id,
                    segments, r_pc, results, delivered >>

\* queueAudio up to the fetch-and-increment of the atomic counter; the
\* binding enters with the interpreter lock and there is no empty-input test
QueueAudioAssign(p, n) ==
    /\ p_pc[p] = "idle"
    /\ gil = NoThread
    /\ hist.calls < MaxChunks
    /\ gil' = p
    /\ p_chunk' = [p_chunk EXCEPT ![p] = NewChunk(n, next_chunk_id)]
    /\ next_chunk_id' = next_chunk_id + 1
    /\ p_pc' = [p_pc EXCEPT ![p] = "push"]
    /\ hist' = [hist EXCEPT !.calls = @ + 1]
    /\ UNCHANGED << running, current_chunk_id, input_queue, input_mutex,
                    result_queue, result_callback, accumulated_buffer,
                    max_samples, ctl_pc, queue_ret, w_pc, w_blocked,
                    force_final, all_chunks, process_buffer, current_id,
                    segments, r_pc, results, delivered >>

\* lock input_mutex; push; input_cv.notify_one(); unlock; return chunk.id
QueueAudioPush(p) ==
    /\ p_pc[p] = "push"
    /\ input_mutex = NoThread
    /\ input_queue' = PushChunk(input_queue,
                                [p_chunk[p] EXCEPT !.ser = hist.appended + 1])
    /\ w_blocked' = FALSE
    /\ queue_ret' = p_chunk[p].id
    /\ p_chunk' = [p_chunk EXCEPT ![p] = NoChunk]
    /\ p_pc' = [p_pc EXCEPT ![p] = "idle"]
    /\ gil' = NoThread
    /\ hist' = [hist EXCEPT !.appended = @ + 1,
                            !.total = @ + Size(p_chunk[p].data),
                            !.idle_enq = @ \/ ~running]
    /\ UNCHANGED << running, next_chunk_id, current_chunk_id, input_mutex,
                    result_queue, result_callback, accumulated_buffer,
                    max_samples, ctl_pc, w_pc, force_final, all_chunks,
                    process_buffer, current_id, segments, r_pc, results,
                    delivered >>

\* --------------------------------------------------------- start / stop
\* start() as it would be without the test of running
StartUnguarded(cb) ==
    /\ ctl_pc = "idle"
    /\ gil = NoThread
    /\ hist.starts < MaxStarts
    /\ running' = TRUE
    /\ result_callback' = cb
    /\ w_pc' = "ctor"
    /\ r_pc' = "loop"
    /\ hist' = [hist EXCEPT !.starts = @ + 1, !.forced = 0,
                            !.w_at_stop = "none", !.last_cb = cb,
                            !.workers = @ + 1, !.deliverers = @ + 1]
    /\ UNCHANGED << next_chunk_id, current_chunk_id, input_queue, input_mutex,
                    result_queue, accumulated_buffer, max_samples, gil, ctl_pc,
                    p_pc, p_chunk, queue_ret, w_blocked, force_final,
                    all_chunks, process_buffer, current_id, segments, results,
                    delivered >>

\* ThreadedWhisperModel::start -> AsyncWhisperModel::start:
\* if (running) return; running = true; result_callback = callback; the two
\* std::thread objects are started
Start(cb) ==
    /\ ctl_pc = "idle"
    /\ gil = NoThread
    /\ hist.starts < MaxStarts
    /\ IF running
       THEN /\ hist' = [hist EXCEPT !.starts = @ + 1, !.last_cb = cb]
            /\ UNCHANGED << running, result_callback, w_pc, r_pc >>
       ELSE /\ running' = TRUE
            /\ result_callback' = cb
            /\ w_pc' = "ctor"
            /\ r_pc' = "loop"
            /\ hist' = [hist EXCEPT !.starts = @ + 1, !.forced = 0,
                                    !.w_at_stop = "none", !.last_cb = cb,
                                    !.workers = @ + 1, !.deliverers = @ + 1]
    /\ UNCHANGED << next_chunk_id, current_chunk_id, input_queue, input_mutex,
                    result_queue, accumulated_buffer, max_samples, gil, ctl_pc,
                    p_pc, p_chunk, queue_ret, w_blocked, force_final,
                    all_chunks, process_buffer, current_id, segments, results,
                    delivered >>

\* stop() as it would begin without the test of running
StopBeginUnguarded ==
    /\ ctl_pc = "idle"
    /\ gil = NoThread
    /\ gil' = "ctl"
    /\ running' = FALSE
    /\ ctl_pc' = "notify_input"
    /\ hist' = [hist EXCEPT !.stops = @ + 1, !.w_at_stop = w_pc,
                            !.noop = ~running]
    /\ UNCHANGED << next_chunk_id, current_chunk_id, input_queue, input_mutex,
                    result_queue, result_callback, accumulated_buffer,
                    max_samples, p_pc, p_chunk, queue_ret, w_pc, w_blocked,
                    force_final, all_chunks, process_buffer, current_id,
                    segments, r_pc, results, delivered >>

\* ThreadedWhisperModel::stop entering AsyncWhisperModel::stop:
\* if (!running) return; running = false
StopBegin ==
    /\ ctl_pc = "idle"
    /\ gil = NoThread
    /\ gil' = "ctl"
    /\ IF ~running
       THEN /\ ctl_pc' = "clear"
            /\ hist' = [hist EXCEPT !.noop = TRUE]
            /\ UNCHANGED running
       ELSE /\ running' = FALSE
            /\ ctl_pc' = "notify_input"
            /\ hist' = [hist EXCEPT !.stops = @ + 1, !.w_at_stop = w_pc]
    /\ UNCHANGED << next_chunk_id, current_chunk_id, input_queue, input_mutex,
                    result_queue, result_callback, accumulated_buffer,
                    max_samples, p_pc, p_chunk, queue_ret, w_pc, w_blocked,
                    force_final, all_chunks, process_buffer, current_id,
                    segments, r_pc, results, delivered >>

\* { lock input_mutex; input_cv.notify_one(); }
StopNotifyInput ==
    /\ ctl_pc = "notify_input"
    /\ input_mutex = NoThread
    /\ w_blocked' = FALSE
    /\ ctl_pc' = "notify_result"
    /\ UNCHANGED << running, next_chunk_id, current_chunk_id, input_queue,
                    input_mutex, result_queue, result_callback,
                    accumulated_buffer, max_samples, gil, p_pc, p_chunk,
                    queue_ret, w_pc, force_final, all_chunks, process_buffer,
                    current_id, segments, r_pc, results, delivered, hist >>

\* { lock result_mutex; result_cv.notify_one(); }  The delivery loop's wait
\* is a wait_for: it leaves the wait by itself, the notification only
\* shortens it
StopNotifyResult ==
    /\ ctl_pc = "notify_result"
    /\ ctl_pc' = "join_process"
    /\ UNCHANGED << running, next_chunk_id, current_chunk_id, input_queue,
                    input_mutex, result_queue, result_callback,
                    accumulated_buffer, max_samples, gil, p_pc, p_chunk,
                    queue_ret, w_pc, w_blocked, force_final, all_chunks,
                    process_buffer, current_id, segments, r_pc, results,
                    delivered, hist >>

\* if (process_thread.joinable()) process_thread.join()
StopJoinProcess ==
    /\ ctl_pc = "join_process"
    /\ w_pc = "done"
    /\ w_pc' = "none"
    /\ ctl_pc' = "join_result"
    /\ hist' = [hist EXCEPT !.workers = @ - 1]
    /\ UNCHANGED << running, next_chunk_id, current_chunk_id, input_queue,
                    input_mutex, result_queue, result_callback,
                    accumulated_buffer, max_samples, gil, p_pc, p_chunk,
                    queue_ret, w_blocked, force_final, all_chunks,
                    process_buffer, current_id, segments, r_pc, results,
                    delivered >>

\* if (result_thread.joinable()) result_thread.join()
StopJoinResult ==
    /\ ctl_pc = "join_result"
    /\ r_pc = "done"
    /\ r_pc' = "none"
    /\ ctl_pc' = "clear"
    /\ hist' = [hist EXCEPT !.deliverers = @ - 1]
    /\ UNCHANGED << running, next_chunk_id, current_chunk_id, input_queue,
                    input_mutex, result_queue, result_callback,
                    accumulated_buffer, max_samples, gil, p_pc, p_chunk,
                    queue_ret, w_pc, w_blocked, force_final, all_chunks,
                    process_buffer, current_id, segments, results, delivered >>

\* the end of stop() as it would be without the override that clears the
\* buffer
StopWithoutClear ==
    /\ ctl_pc = "clear"
    /\ ctl_pc' = "idle"
    /\ gil' = NoThread
    /\ hist' = [hist EXCEPT !.noop = FALSE]
    /\ UNCHANGED << running, next_chunk_id, current_chunk_id, input_queue,
                    input_mutex, result_queue, result_callback,
                    accumulated_buffer, max_samples, p_pc, p_chunk, queue_ret,
                    w_pc, w_blocked, force_final, all_chunks, process_buffer,
                    current_id, segments, r_pc, results, delivered >>

\* { lock buffer_mutex; accumulated_buffer.clear(); } and the return to Python
StopClear ==
    /\ ctl_pc = "clear"
    /\ accumulated_buffer' = <<>>
    /\ ctl_pc' = "idle"
    /\ gil' = NoThread
    /\ hist' = [hist EXCEPT !.noop = FALSE]
    /\ UNCHANGED << running, next_chunk_id, current_chunk_id, input_queue,
                    input_mutex, result_queue, result_callback, max_samples,
                    p_pc, p_chunk, queue_ret, w_pc, w_blocked, force_final,
                    all_chunks, process_buffer, current_id, segments, r_pc,
                    results, delivered >>

\* set_max_duration(max_duration_sec), called by a Python thread that holds
\* the interpreter lock for the call: max_samples is written under no mutex
SetMaxDuration(max_duration_sec) ==
    /\ ctl_pc = "idle"
    /\ gil = NoThread
    /\ max_samples' = MaxSamplesOf(max_duration_sec, SampleRate)
    /\ UNCHANGED << running, next_chunk_id, current_chunk_id, input_queue,
                    input_mutex, result_queue, result_callback,
                    accumulated_buffer, gil, ctl_pc, p_pc, p_chunk, queue_ret,
                    w_pc, w_blocked, force_final, all_chunks, process_buffer,
                    current_id, segments, r_pc, results, delivered, hist >>

\* ------------------------------------------------------ the worker loop
\* while (!input_queue.empty()) { chunk = front; pop; all_chunks.data.insert(
\* end, chunk.data); all_chunks.id = chunk.id; }
RECURSIVE DrainChunks(_, _)
DrainChunks(q, acc) ==
    IF q = <<>> THEN acc
    ELSE DrainChunks(Tail(q), [data |-> acc.data \o Head(q).data,
                               id |-> Head(q).id,
                               ser |-> Head(q).ser])

\* the predicate of input_cv.wait
InputReady == input_queue # <<>> \/ ~running

\* a pass that clears the buffer whatever its size
ShouldClearAlways(force, size, max) == TRUE

\* force_final || accumulated_buffer.size() >= max_samples
ShouldClear(force, size, max) == force \/ size >= max

\* the partial flag as it would be if it looked at the size only
IsPartialBySizeOnly(force, size, max) == ~(size >= max)

\* result.is_partial = !(force_final || process_buffer.size() >= max_samples)
IsPartial(force, size, max) == ~(force \/ size >= max)

\* accumulated_buffer.empty() || accumulated_buffer.size() < 16000
TooShort(buf) == buf = <<>> \/ Size(buf) < MinEmitSamples

\* WhisperModel model(model_path, use_gpu)
WorkerCtor ==
    /\ w_pc = "ctor"
    /\ w_pc' = "loop"
    /\ UNCHANGED << running, next_chunk_id, current_chunk_id, input_queue,
                    input_mutex, result_queue, result_callback,
                    accumulated_buffer, max_samples, gil, ctl_pc, p_pc,
                    p_chunk, queue_ret, w_blocked, force_final, all_chunks,
                    process_buffer, current_id, segments, r_pc, results,
                    delivered, hist >>

\* WhisperModel model(model_path, use_gpu) throws std::runtime_error (line
\* 76): nothing in processThread catches it, the exception leaves the thread
\* function and std::terminate ends the process
WorkerCtorFail ==
    /\ w_pc = "ctor"
    /\ w_pc' = "abort"
    /\ UNCHANGED << running, next_chunk_id, current_chunk_id, input_queue,
                    input_mutex, result_queue, result_callback,
                    accumulated_buffer, max_samples, gil, ctl_pc, p_pc,
                    p_chunk, queue_ret, w_blocked, force_final, all_chunks,
                    process_buffer, current_id, segments, r_pc, results,
                    delivered, hist >>

\* while (running)
WorkerLoop ==
    /\ w_pc = "loop"
    /\ w_pc' = IF running THEN "wait" ELSE "done"
    /\ UNCHANGED << running, next_chunk_id, current_chunk_id, input_queue,
                    input_mutex, result_queue, result_callback,
                    accumulated_buffer, max_samples, gil, ctl_pc, p_pc,
                    p_chunk, queue_ret, w_blocked, force_final, all_chunks,
                    process_buffer, current_id, segments, r_pc, results,
                    delivered, hist >>

\* input_cv.wait(lock, pred) with the predicate false: release the lock and
\* block until notified
WorkerWaitBlock ==
    /\ w_pc = "wait"
    /\ ~w_blocked
    /\ input_mutex = NoThread
    /\ ~InputReady
    /\ w_blocked' = TRUE
    /\ UNCHANGED << running, next_chunk_id, current_chunk_id, input_queue,
                    input_mutex, result_queue, result_callback,
                    accumulated_buffer, max_samples, gil, ctl_pc, p_pc,
                    p_chunk, queue_ret, w_pc, force_final, all_chunks,
                    process_buffer, current_id, segments, r_pc, results,
                    delivered, hist >>

\* a condition variable may wake without a notification; the wait then
\* evaluates its predicate again
WorkerSpuriousWake ==
    /\ w_pc = "wait"
    /\ w_blocked
    /\ w_blocked' = FALSE
    /\ UNCHANGED << running, next_chunk_id, current_chunk_id, input_queue,
                    input_mutex, result_queue, result_callback,
                    accumulated_buffer, max_samples, gil, ctl_pc, p_pc,
                    p_chunk, queue_ret, w_pc, force_final, all_chunks,
                    process_buffer, current_id, segments, r_pc, results,
                    delivered, hist >>

\* the wait returns with running false: processAccumulatedAudio(model, true)
\* is entered with input_mutex still held
WorkerShutdown ==
    /\ w_pc = "wait"
    /\ ~w_blocked
    /\ input_mutex = NoThread
    /\ ~running
    /\ input_mutex' = "worker"
    /\ force_final' = TRUE
    /\ w_pc' = "pass"
    /\ hist' = [hist EXCEPT !.forced = @ + 1]
    /\ UNCHANGED << running, next_chunk_id, current_chunk_id, input_queue,
                    result_queue, result_callback, accumulated_buffer,
                    max_samples, gil, ctl_pc, p_pc, p_chunk, queue_ret,
                    w_blocked, all_chunks, process_buffer, current_id,
                    segments, r_pc, results, delivered >>

\* the wait returns with running true: take all chunks from the queue and
\* create a single chunk, under input_mutex
WorkerDrain ==
    /\ w_pc = "wait"
    /\ ~w_blocked
    /\ input_mutex = NoThread
    /\ running
    /\ input_queue # <<>>
    /\ all_chunks' = DrainChunks(input_queue, NoChunk)
    /\ input_queue' = <<>>
    /\ w_pc' = "append"
    /\ hist' = [hist EXCEPT !.drained =
                  @ \o [i \in DOMAIN input_queue |-> input_queue[i].ser]]
    /\ UNCHANGED << running, next_chunk_id, current_chunk_id, input_mutex,
                    result_queue, result_callback, accumulated_buffer,
                    max_samples, gil, ctl_pc, p_pc, p_chunk, queue_ret,
                    w_blocked, force_final, process_buffer, current_id,
                    segments, r_pc, results, delivered >>

\* if (has_chunk) { lock buffer_mutex; append all_chunks.data;
\* current_chunk_id = all_chunks.id; } processAccumulatedAudio(model, false)
WorkerAppend ==
    /\ w_pc = "append"
    /\ accumulated_buffer' = accumulated_buffer \o all_chunks.data
    /\ current_chunk_id' = all_chunks.id
    /\ all_chunks' = NoChunk
    /\ force_final' = FALSE
    /\ w_pc' = "pass"
    /\ UNCHANGED << running, next_chunk_id, input_queue, input_mutex,
                    result_queue, result_callback, max_samples, gil, ctl_pc,
                    p_pc, p_chunk, queue_ret, w_blocked, process_buffer,
                    current_id, segments, r_pc, results, delivered, hist >>

\* the return from processAccumulatedAudio: after the forced pass the loop
\* breaks and the unique_lock on input_mutex is released; otherwise the
\* loop goes on
PassReturn ==
    /\ w_pc' = IF force_final THEN "done" ELSE "loop"
    /\ input_mutex' = IF force_final THEN NoThread ELSE input_mutex
    /\ force_final' = FALSE
    /\ process_buffer' = <<>>
    /\ current_id' = 0
    /\ segments' = <<>>

\* processAccumulatedAudio, the block under buffer_mutex
PassCheck ==
    /\ w_pc = "pass"
    /\ IF TooShort(accumulated_buffer)
       THEN /\ PassReturn
            /\ UNCHANGED accumulated_buffer
       ELSE /\ process_buffer' = accumulated_buffer
            /\ current_id' = current_chunk_id
            /\ accumulated_buffer' =
                 IF ShouldClear(force_final, Size(accumulated_buffer), max_samples)
                 THEN <<>> ELSE accumulated_buffer
            /\ w_pc' = "infer"
            /\ UNCHANGED << input_mutex, force_final, segments >>
    /\ UNCHANGED << running, next_chunk_id, current_chunk_id, input_queue,
                    result_queue, result_callback, max_samples, gil, ctl_pc,
                    p_pc, p_chunk, queue_ret, w_blocked, all_chunks, r_pc,
                    results, delivered, hist >>

\* the text the delivery loop would build is not empty
Deliverable(segs) == segs # <<>> /\ trim(ConcatText(segs)) # <<>>

\* try { segments = model.transcribe_raw_audio(...) } catch (...) { log }
PassInfer ==
    /\ w_pc = "infer"
    /\ \E out \in EngineOutcomes :
         /\ segments' = IF out.threw THEN <<>> ELSE out.segs
         /\ hist' = [hist EXCEPT !.engine_ok =
                       @ /\ ~out.threw /\ Deliverable(out.segs),
                                 !.threw = out.threw]
    /\ w_pc' = "push"
    /\ UNCHANGED << running, next_chunk_id, current_chunk_id, input_queue,
                    input_mutex, result_queue, result_callback,
                    accumulated_buffer, max_samples, gil, ctl_pc, p_pc,
                    p_chunk, queue_ret, w_blocked, force_final, all_chunks,
                    process_buffer, current_id, r_pc, results, delivered >>

\* TranscriptionResult result: chunk_id, segments, is_partial; ser, len and
\* force record which push and which pass made it
NewResult ==
    [ chunk_id |-> current_id,
      segments |-> segments,
      is_partial |-> IsPartial(force_final, Size(process_buffer), max_samples),
      ser |-> hist.pushed + 1,
      len |-> Size(process_buffer),
      force |-> force_final ]

\* result_queue.push(result)
PushResult(q, r) == Append(q, r)

\* the end of a pass as it would be if an inference error ended the worker
\* loop
PassPushFatalError ==
    /\ w_pc = "push"
    /\ IF segments = <<>>
       THEN /\ hist' = [hist EXCEPT !.threw = FALSE]
            /\ UNCHANGED result_queue
       ELSE /\ result_queue' = PushResult(result_queue, NewResult)
            /\ hist' = [hist EXCEPT !.pushed = @ + 1,
                          !.deliverable = IF Deliverable(segments)
                                          THEN Append(@, NewResult.ser)
                                          ELSE @]
    /\ w_pc' = IF force_final \/ hist.threw THEN "done" ELSE "loop"
    /\ input_mutex' = IF force_final THEN NoThread ELSE input_mutex
    /\ force_final' = FALSE
    /\ process_buffer' = <<>>
    /\ current_id' = 0
    /\ segments' = <<>>
    /\ UNCHANGED << running, next_chunk_id, current_chunk_id, input_queue,
                    result_callback, accumulated_buffer, max_samples, gil,
                    ctl_pc, p_pc, p_chunk, queue_ret, w_blocked, all_chunks,
                    r_pc, results, delivered >>

\* if (segments.empty()) return; build the result; lock result_mutex; push;
\* result_cv.notify_one()
PassPush ==
    /\ w_pc = "push"
    /\ IF segments = <<>>
       THEN /\ hist' = [hist EXCEPT !.threw = FALSE]
            /\ UNCHANGED result_queue
       ELSE /\ result_queue' = PushResult(result_queue, NewResult)
            /\ hist' = [hist EXCEPT !.pushed = @ + 1,
                          !.deliverable = IF Deliverable(segments)
                                          THEN Append(@, NewResult.ser)
                                          ELSE @]
    /\ PassReturn
    /\ UNCHANGED << running, next_chunk_id, current_chunk_id, input_queue,
                    result_callback, accumulated_buffer, max_samples, gil,
                    ctl_pc, p_pc, p_chunk, queue_ret, w_blocked, all_chunks,
                    r_pc, results, delivered >>

\* ---------------------------------------------------- the delivery loop
\* a drain that collects the results last first
DrainResultsReversed(q) == [i \in 1 .. Len(q) |-> q[Len(q) + 1 - i]]

\* while (!result_queue.empty()) { results.push_back(front); pop; }
DrainResults(q) == q

\* the test that ends the delivery loop from inside the wait
ResultExit == ~running /\ result_queue = <<>>

\* the two tests before the callback: segments.empty(), then
\* trim(full_text).empty()
Skipped(result) ==
    \/ result.segments = <<>>
    \/ trim(ConcatText(result.segments)) = <<>>

\* while (running)
ResultLoop ==
    /\ r_pc = "loop"
    /\ r_pc' = IF running THEN "wait" ELSE "done"
    /\ UNCHANGED << running, next_chunk_id, current_chunk_id, input_queue,
                    input_mutex, result_queue, result_callback,
                    accumulated_buffer, max_samples, gil, ctl_pc, p_pc,
                    p_chunk, queue_ret, w_pc, w_blocked, force_final,
                    all_chunks, process_buffer, current_id, segments, results,
                    delivered, hist >>

\* under result_mutex: result_cv.wait_for(lock, interval, pred), which
\* returns on the predicate or on the timeout; break, or drain the queue;
\* then if (!results.empty())
ResultWait ==
    /\ r_pc = "wait"
    /\ IF ResultExit
       THEN /\ r_pc' = "done"
            /\ UNCHANGED << result_queue, results >>
       ELSE /\ results' = DrainResults(result_queue)
            /\ result_queue' = <<>>
            /\ r_pc' = IF results' = <<>> THEN "loop" ELSE "gil"
    /\ UNCHANGED << running, next_chunk_id, current_chunk_id, input_queue,
                    input_mutex, result_callback, accumulated_buffer,
                    max_samples, gil, ctl_pc, p_pc, p_chunk, queue_ret, w_pc,
                    w_blocked, force_final, all_chunks, process_buffer,
                    current_id, segments, delivered, hist >>

\* py::gil_scoped_acquire gil
ResultAcquire ==
    /\ r_pc = "gil"
    /\ gil = NoThread
    /\ gil' = "result"
    /\ r_pc' = "deliver"
    /\ UNCHANGED << running, next_chunk_id, current_chunk_id, input_queue,
                    input_mutex, result_queue, result_callback,
                    accumulated_buffer, max_samples, ctl_pc, p_pc, p_chunk,
                    queue_ret, w_pc, w_blocked, force_final, all_chunks,
                    process_buffer, current_id, segments, results, delivered,
                    hist >>

\* what the callback receives: (int)result.chunk_id, result.segments,
\* result.is_partial; cb says which callback ran
Invocation(result, cb) == [cb |-> cb] @@ result

\* one iteration of for (const auto &result : results); an exception of the
\* callback is caught and logged
ResultDeliver ==
    /\ r_pc = "deliver"
    /\ results # <<>>
    /\ delivered' = IF Skipped(Head(results)) \/ result_callback = NoThread
                    THEN delivered
                    ELSE Append(delivered,
                                Invocation(Head(results), result_callback))
    /\ results' = Tail(results)
    /\ UNCHANGED << running, next_chunk_id, current_chunk_id, input_queue,
                    input_mutex, result_queue, result_callback,
                    accumulated_buffer, max_samples, gil, ctl_pc, p_pc,
                    p_chunk, queue_ret, w_pc, w_blocked, force_final,
                    all_chunks, process_buffer, current_id, segments, r_pc,
                    hist >>

\* an iteration whose callback raises, as it would be if the exception left
\* the for loop
ResultDeliverRaiseEndsBatch ==
    /\ r_pc = "deliver"
    /\ results # <<>>
    /\ ~Skipped(Head(results))
    /\ result_callback # NoThread
    /\ delivered' = Append(delivered,
                           Invocation(Head(results), result_callback))
    /\ results' = <<>>
    /\ hist' = [hist EXCEPT !.cb_raised = Head(results).ser]
    /\ UNCHANGED << running, next_chunk_id, current_chunk_id, input_queue,
                    input_mutex, result_queue, result_callback,
                    accumulated_buffer, max_samples, gil, ctl_pc, p_pc,
                    p_chunk, queue_ret, w_pc, w_blocked, force_final,
                    all_chunks, process_buffer, current_id, segments, r_pc >>

\* an iteration whose callback raises: try { result_callback(...) }
\* catch (const std::exception &e) { log } catch (...) { log }, and the for
\* loop goes on with the next result
ResultDeliverRaise ==
    /\ r_pc = "deliver"
    /\ results # <<>>
    /\ ~Skipped(Head(results))
    /\ result_callback # NoThread
    /\ delivered' = Append(delivered,
                           Invocation(Head(results), result_callback))
    /\ results' = Tail(results)
    /\ hist' = [hist EXCEPT !.cb_raised = Head(results).ser]
    /\ UNCHANGED << running, next_chunk_id, current_chunk_id, input_queue,
                    input_mutex, result_queue, result_callback,
                    accumulated_buffer, max_samples, gil, ctl_pc, p_pc,
                    p_chunk, queue_ret, w_pc, w_blocked, force_final,
                    all_chunks, process_buffer, current_id, segments, r_pc >>

\* the end of the if block: the interpreter lock is released
ResultRelease ==
    /\ r_pc = "deliver"
    /\ results = <<>>
    /\ gil' = NoThread
    /\ r_pc' = "loop"
    /\ UNCHANGED << running, next_chunk_id, current_chunk_id, input_queue,
                    input_mutex, result_queue, result_callback,
                    accumulated_buffer, max_samples, ctl_pc, p_pc, p_chunk,
                    queue_ret, w_pc, w_blocked, force_final, all_chunks,
                    process_buffer, current_id, segments, results, delivered,
                    hist >>

\* ------------------------------------------------------ specifications
ProducerNext ==
    \E p \in Producers :
        \/ \E n \in ChunkSizes : QueueAudioAssign(p, n)
        \/ QueueAudioPush(p)

ControlNext ==
    \/ \E cb \in Callbacks : Start(cb)
    \/ StopBegin
    \/ StopNotifyInput
    \/ StopNotifyResult
    \/ StopJoinProcess
    \/ StopJoinResult
    \/ StopClear

WorkerNext ==
    \/ WorkerCtor
    \/ WorkerLoop
    \/ WorkerWaitBlock
    \/ WorkerShutdown
    \/ WorkerDrain
    \/ WorkerAppend
    \/ PassCheck
    \/ PassInfer
    \/ PassPush

ResultNext ==
    \/ ResultLoop
    \/ ResultWait
    \/ ResultAcquire
    \/ ResultDeliver
    \/ ResultRelease

Next ==
    \/ ProducerNext
    \/ ControlNext
    \/ WorkerNext
    \/ WorkerSpuriousWake
    \/ ResultNext

Spec == Init /\ [][Next]_vars

\* the scheduler runs every thread that can run; a stop() in progress goes
\* on; the caller's choice to call start, stop or queue_audio is not forced
StopNext ==
    \/ StopNotifyInput
    \/ StopNotifyResult
    \/ StopJoinProcess
    \/ StopJoinResult
    \/ StopClear

FairSpec ==
    /\ Spec
    /\ WF_vars(StopNext)
    /\ WF_vars(WorkerNext)
    /\ WF_vars(ResultNext)
    /\ WF_vars(\E p \in Producers : QueueAudioPush(p))

\* ------------------------------------------- variant specifications
\* a second callback object, to tell a replaced callback from the stored one
TwoCallbacks == Callbacks \cup {"cbB"}

\* one Python thread calls queue_audio, each time with at least a second of
\* audio
OneProducerNext ==
    \/ \E n \in ChunkSizes : n >= MinEmitSamples /\ QueueAudioAssign("p1", n)
    \/ QueueAudioPush("p1")

\* start() is called with either of two callbacks
NextTwoCallbacks ==
    \/ OneProducerNext
    \/ \E cb \in TwoCallbacks : Start(cb)
    \/ StopBegin
    \/ StopNext
    \/ WorkerNext
    \/ WorkerSpuriousWake
    \/ ResultNext

SpecTwoCallbacks == Init /\ [][NextTwoCallbacks]_vars

\* the threads of a program with one Python thread calling queue_audio
OneCallerNext ==
    \/ OneProducerNext
    \/ ControlNext
    \/ WorkerNext
    \/ WorkerSpuriousWake
    \/ ResultNext

\* the engine may fail to load its model; no thread runs after the process
\* was terminated
NextCtorFailure ==
    \/ w_pc # "abort" /\ OneCallerNext
    \/ WorkerCtorFail

SpecCtorFailure == Init /\ [][NextCtorFailure]_vars

\* the callback may raise
NextCallbackRaises ==
    \/ OneCallerNext
    \/ ResultDeliverRaise

SpecCallbackRaises == Init /\ [][NextCallbackRaises]_vars

\* the durations set_max_duration is called with, in seconds
Durations == 1 .. MaxDurationSec

\* set_max_duration may be called at any moment
NextSetMaxDuration ==
    \/ OneCallerNext
    \/ \E d \in Durations : SetMaxDuration(d)

SpecSetMaxDuration == Init /\ [][NextSetMaxDuration]_vars

\* the sample rates an instance is constructed with
SampleRates == {SampleRate, 48000}

InitSampleRate == \E sr \in SampleRates : Construct(MaxDurationSec, sr)

SpecSampleRate == InitSampleRate /\ [][OneCallerNext]_vars

\* ------------------------------------------------------------ properties
Range(f) == {f[i] : i \in DOMAIN f}
Sers(q) == [i \in DOMAIN q |-> q[i].ser]
Increasing(q) == \A i, j \in DOMAIN q : i < j => q[i] < q[j]
InStop == ctl_pc # "idle"
AllWhitespace(str) == \A i \in DOMAIN str : str[i] \in Whitespace
\* every result that is in the result queue, in the delivery loop's batch or
\* was handed to the callback
LiveResults == Range(result_queue) \cup Range(results) \cup Range(delivered)

\* the push numbers of the results of q that the delivery loop does not skip
RECURSIVE DeliverableSers(_)
DeliverableSers(q) ==
    IF q = <<>> THEN <<>>
    ELSE (IF Skipped(Head(q)) THEN <<>> ELSE << Head(q).ser >>)
             \o DeliverableSers(Tail(q))

\* C1: the chunks the worker has removed, followed by the chunks still in
\* the ingestion queue, are exactly the chunks appended so far, each once,
\* in the order of their appends.
C1_DrainedOnceInAppendOrder ==
    hist.drained \o Sers(input_queue) = [i \in 1 .. hist.appended |-> i]

\* one chunk is being transcribed while the next one waits in the queue
C1_Witness ==
    /\ hist.drained # <<>>
    /\ input_queue # <<>>
    /\ w_pc = "infer"

\* C2: a result has is_partial = false exactly when its pass processed a
\* buffer of at least max_samples samples or was the forced shutdown pass
\* with at least the minimum-emit number of samples.
C2_FinalIffMaxOrForced ==
    \A r \in LiveResults :
        (~r.is_partial) <=>
            (r.len >= max_samples \/ (r.force /\ r.len >= MinEmitSamples))

\* a partial result was delivered and the shutdown flush pushed a final one
C2_Witness ==
    /\ \E r \in Range(delivered) : r.is_partial
    /\ \E r \in Range(result_queue) : ~r.is_partial /\ r.force

\* C3: once stop() has been called on a pipeline into which at least the
\* minimum-emit number of samples (and fewer than max_samples) was enqueued
\* while it ran, and the engine returned text, the delivery loop has not
\* exited without a final result covering all enqueued samples having been
\* handed to the callback.
C3_FinalFlushDelivered ==
    ( /\ InStop
      /\ hist.stops = 1
      /\ ~hist.idle_enq
      /\ hist.engine_ok
      /\ hist.total >= MinEmitSamples
      /\ hist.total < max_samples
      /\ r_pc = "done" )
    => \E r \in Range(delivered) : ~r.is_partial /\ r.len = hist.total

\* C4: once the delivery loop has exited, shutdown has been requested and
\* the result queue is empty and stays empty: the worker pushes nothing
\* after the exit, and nothing it pushed is left in the queue.
C4_DeliveryExitsAfterLastResult ==
    r_pc = "done" => (~running /\ result_queue = <<>>)

\* C5: a worker that was waiting for input, draining or in a pass when
\* stop() cleared the running flag, and has terminated, has performed exactly
\* one forced-final pass.
C5_OneForcedPassBeforeExit ==
    (w_pc = "done" /\ hist.w_at_stop \in {"wait", "append", "pass", "infer", "push"})
        => hist.forced = 1

\* C6: every stop() in progress eventually returns.
C6_StopReturns == InStop ~> ~InStop

\* C7: a queue_audio call with a zero-length array changes neither the
\* chunk-id counter nor the ingestion queue.
C7_EmptyEnqueueIsNoOp ==
    [][\A p \in Producers :
         /\ (p_pc[p] = "idle" /\ p_pc'[p] = "push" /\ p_chunk'[p].data = <<>>)
              => next_chunk_id' = next_chunk_id
         /\ (p_pc[p] = "push" /\ p_chunk[p].data = <<>>)
              => input_queue' = input_queue]_vars

\* the chunks in the ingestion queue have consecutive ids, continuing the
\* ids of the chunks already removed: strictly increasing, starting at 0
QueueIdsInOrder ==
    \A i \in DOMAIN input_queue :
        input_queue[i].id = Len(hist.drained) + i - 1

\* C8 (as stated): a producer that has taken an id for a chunk not yet in
\* the queue holds the ingestion lock, and the queue is in id order.
C8_IdAssignedUnderIngestionLock ==
    /\ \A p \in Producers : p_pc[p] = "push" => input_mutex = p
    /\ QueueIdsInOrder

\* C8 (amended): ids are taken from the atomic counter before the ingestion
\* lock; callers being serialized by the interpreter lock, the chunks in the
\* ingestion queue are in strictly increasing id order starting at 0, and
\* the owning chunk id recorded by the drains never decreases.
C8_QueueIdsIncreasing ==
    /\ [](QueueIdsInOrder /\ Cardinality({p \in Producers : p_pc[p] = "push"}) <= 1)
    /\ [][current_chunk_id' >= current_chunk_id]_vars

\* two chunks wait in the queue of a running pipeline
C8_Witness ==
    /\ Len(input_queue) >= 2
    /\ running

\* C9: no callback invocation carries segments whose concatenated text is
\* empty or whitespace only.
C9_NoEmptyTextDelivered ==
    \A r \in Range(delivered) :
        r.segments # <<>> /\ ~AllWhitespace(ConcatText(r.segments))

\* a result was skipped by the delivery loop and another one was delivered
C9_Witness ==
    /\ delivered # <<>>
    /\ hist.pushed - Len(result_queue) - Len(results) > Len(delivered)

\* C10: results reach the callback in the order the worker pushed them:
\* the invocations so far, then the batch in hand, then the result queue,
\* are in increasing push order.
C10_DeliveredInPushOrder ==
    Increasing(Sers(delivered) \o Sers(results) \o Sers(result_queue))

\* two results were delivered and a third one is queued
C10_Witness ==
    /\ Len(delivered) >= 2
    /\ result_queue # <<>>

\* C11: while an engine inference call is in progress no thread holds the
\* ingestion lock (the buffer lock and the result lock are taken and
\* released inside single steps that contain no inference and no callback).
C11_NoLockAcrossInference ==
    w_pc = "infer" => input_mutex = NoThread

\* C12: whenever no stop() is in progress and the pipeline is not running
\* (so after every stop() that has returned, up to the next start()), and
\* when start() has just spawned the worker, the accumulation buffer is
\* empty.
C12_BufferEmptyAfterStop ==
    ((ctl_pc = "idle" /\ ~running) \/ w_pc = "ctor")
        => accumulated_buffer = <<>>

\* a second run starts after a run whose 5000 samples stayed in the buffer
\* until stop() cleared it
C12_Witness ==
    /\ w_pc = "ctor"
    /\ hist.starts = 2
    /\ hist.stops = 1
    /\ hist.total = 5000
    /\ hist.drained # <<>>
    /\ input_queue = <<>>

\* C13: a stop() that finds the pipeline not running goes straight to its
\* return, joining nothing, and none of its steps changes the running flag,
\* the ingestion queue, the result queue, the chunk-id counter, the stored
\* callback, the buffer or the threads.
C13_StopWhenStoppedIsNoOp ==
    [][((ctl_pc = "idle" /\ ~running /\ ctl_pc' # "idle")
            \/ (ctl_pc = "clear" /\ hist.noop))
        => /\ ctl_pc' \in {"clear", "idle"}
           /\ UNCHANGED << running, input_queue, result_queue, next_chunk_id,
                           result_callback, accumulated_buffer, w_pc, r_pc >>]_vars

\* stop() is called again after a run, with a chunk still in the queue
C13_Witness ==
    /\ ctl_pc = "clear"
    /\ hist.noop
    /\ hist.stops = 1
    /\ input_queue # <<>>

\* C14: at most one worker loop and at most one delivery loop are alive at
\* any time, and a start() called while the pipeline is running changes
\* neither the running flag, nor the stored callback, nor either loop.
C14_StartWhileRunningIsNoOp ==
    /\ [](hist.workers <= 1 /\ hist.deliverers <= 1)
    /\ [][(running /\ hist'.starts = hist.starts + 1)
            => UNCHANGED << running, result_callback, w_pc, r_pc,
                            hist.workers, hist.deliverers >>]_vars

\* start() was called with another callback while running, and the one
\* worker is inside an inference call
C14_Witness ==
    /\ running
    /\ hist.starts = 2
    /\ hist.last_cb # result_callback
    /\ hist.workers = 1
    /\ w_pc = "infer"

\* C15: when engine construction has failed, the pipeline is not running and
\* no loop was started: the running flag is false, start() has not returned
\* as if it had succeeded and no delivery loop exists.
C15_CtorFailureStartsNothing ==
    w_pc = "abort" => (~running /\ r_pc = "none" /\ hist.workers = 0)

\* C16: the engine is never invoked on a buffer that holds less than one
\* second of audio at the sample rate the instance was constructed with.
C16_NoInferenceBelowOneSecond ==
    w_pc = "infer" => Size(process_buffer) >= hist.sample_rate

\* C17 (as stated): a pass that has cleared the buffer is one whose inference
\* succeeded, so that a result is pushed for it.
C17_ClearedOnlyWithFinalResult ==
    (w_pc = "push" /\ process_buffer # <<>> /\ accumulated_buffer = <<>>)
        => segments # <<>>

\* C17 (amended): the length of the buffer decreases only when the buffer is
\* cleared; it is cleared only by a pass that is forced or has reached
\* max_samples, before its inference call, and by stop() after the joins; a
\* pass that is neither forced nor at max_samples leaves the buffer as it
\* copied it.
C17_ClearedOnlyByFinalPassOrStop ==
    /\ [][Size(accumulated_buffer') < Size(accumulated_buffer)
            => /\ accumulated_buffer' = <<>>
               /\ \/ ctl_pc = "clear"
                  \/ /\ w_pc = "pass"
                     /\ ShouldClear(force_final, Size(accumulated_buffer),
                                    max_samples)]_vars
    /\ []((/\ w_pc \in {"infer", "push"}
           /\ IsPartial(force_final, Size(process_buffer), max_samples))
            => accumulated_buffer = process_buffer)

\* a pass has cleared the buffer and its inference gave no segments
C17_Witness ==
    /\ w_pc = "push"
    /\ segments = <<>>
    /\ process_buffer # <<>>
    /\ accumulated_buffer = <<>>
    /\ ~force_final

\* C18: the step that ends a pass whose inference call threw pushes no
\* result, leaves the running flag, the ingestion queue, the buffer and the
\* owning chunk id as they are, and takes the worker back to the head of its
\* loop (to its exit after the forced pass of a shutdown), as the end of any
\* other pass without segments does.
C18_InferenceErrorKeepsLoop ==
    [][(w_pc = "push" /\ hist.threw /\ w_pc' # w_pc)
        => /\ w_pc' = IF force_final THEN "done" ELSE "loop"
           /\ ~hist'.threw
           /\ UNCHANGED << running, input_queue, result_queue,
                           accumulated_buffer, current_chunk_id >>]_vars

\* an inference call threw in a pass that is not the forced one, while
\* another chunk waits in the ingestion queue
C18_Witness ==
    /\ w_pc = "push"
    /\ hist.threw
    /\ ~force_final
    /\ running
    /\ input_queue # <<>>

\* C19: a callback that raises drops nothing: the results passed to the
\* callback so far, then the results of the batch in hand that are not
\* skipped, then those of the result queue, are at every moment exactly the
\* non-empty results pushed so far, in push order; and the step in which the
\* callback raises removes that one result from the batch and leaves the
\* delivery loop where it is.
C19_CallbackErrorDropsNothing ==
    /\ [](Sers(delivered) \o DeliverableSers(results)
              \o DeliverableSers(result_queue) = hist.deliverable)
    /\ [][hist'.cb_raised # hist.cb_raised
            => /\ results' = Tail(results)
               /\ UNCHANGED << r_pc, result_queue, running >>]_vars

\* the callback raised for one result and was then invoked for a later one,
\* with a further result of the same batch still to come
C19_Witness ==
    /\ hist.cb_raised > 0
    /\ \E i \in DOMAIN delivered : delivered[i].ser > hist.cb_raised
    /\ r_pc = "deliver"
    /\ DeliverableSers(results) # <<>>

\* C20: when a pass is about to push its result, the result is marked final
\* exactly if the pass has cleared the buffer, and marked partial exactly if
\* the buffer still holds the samples the pass copied.
C20_FinalIffCleared ==
    (w_pc = "push" /\ segments # <<>>)
        => (IsPartial(force_final, Size(process_buffer), max_samples)
                <=> accumulated_buffer = process_buffer)

\* C21: when a stop() that found the pipeline running has returned, and
\* every queue_audio call so far was made while the pipeline was running,
\* no chunk that carries samples is left in the ingestion queue and the
\* result queue is empty, so nothing of the finished cycle is left for the
\* loops of a later start().
C21_QueuesEmptyAfterStop ==
    (/\ ctl_pc = "idle"
     /\ ~running
     /\ hist.stops >= 1
     /\ ~hist.idle_enq)
        => /\ \A i \in DOMAIN input_queue : input_queue[i].data = <<>>
           /\ result_queue = <<>>

====
